---- MODULE Spec2Model ----
(***************************************************************************)
(* Model of the pilot-monitoring analysis engine                           *)
(* (src/data_analyzer.py, class PilotDataAnalyzer) and of the places of    *)
(* the report generator that read its output.                              *)
(*                                                                         *)
(* Conventions                                                             *)
(*  - A timestamp is an integer number of whole minutes since an epoch;    *)
(*    a Timedelta is a difference of timestamps (minutes).                 *)
(*    total_seconds() is minutes * 60.                                     *)
(*  - A message is a sequence of word tokens; Python's `pat in message`    *)
(*    is containment of a contiguous sub-sequence.                         *)
(*  - A Python float is an exact rational [num, den], den > 0, kept in     *)
(*    lowest terms.                                                        *)
(*  - A Python dict is a TLA+ record; a key that the code does not set is  *)
(*    absent from the record's DOMAIN.                                     *)
(***************************************************************************)
EXTENDS Integers, Sequences, FiniteSets, TLC

VARIABLES
    self,                 \* the analyzer's attributes set by __init__
    file,                 \* the data file of the call, when its table is known
    suspended,            \* the frame of a second, suspended analyze_data call
    argsort,              \* orders the build's sort has produced, by key list
    automation,           \* the locals of run_automation
    story,                \* the sections a report is built from
    month_data,           \* [first_day, last_day]
    pc,                   \* position inside analyze_data
    df,                   \* the local DataFrame of analyze_data
    i,                    \* number of rows of df already visited by iterrows
    in_outage,            \* identify_outages local
    outage_start,         \* identify_outages local
    outages,              \* identify_outages local, then analyze_data local
    availability_percent, \* analyze_data local
    compliance,           \* analyze_data local
    stats,                \* analyze_data local
    result                \* value returned by analyze_data

vars == <<self, file, suspended, argsort, automation, story, month_data, pc, df,
          i, in_outage, outage_start, outages, availability_percent,
          compliance, stats, result>>

(* what a step of analyze_data leaves alone outside its own locals *)
contextVars == <<self, file, suspended, argsort, automation, story>>

----------------------------------------------------------------------------
(* Bounds of the explored inputs *)

MaxRows == 3
MaxTime == 2
MaxBadRows == 2

Times == 0 .. MaxTime

(* Python's None (timestamps are >= 0) *)
None == -1

----------------------------------------------------------------------------
(* Messages and the literal substring matching of identify_outages *)

PilotInactiveMsg == <<"Pilot", "Inactive">>
PilotActiveMsg == <<"Pilot", "Active">>
OtherMsg == <<"Pilot", "Test", "Active">>

Messages == {PilotInactiveMsg, PilotActiveMsg, OtherMsg}

(* Python `pat in message` *)
Contains(message, pat) ==
    \E k \in 0 .. (Len(message) - Len(pat)) :
        SubSeq(message, k + 1, k + Len(pat)) = pat

(* the branch of the if/elif of the loop body that a message takes *)
IsInactiveMsg(message) == Contains(message, PilotInactiveMsg)

IsActiveMsg(message) ==
    /\ ~ Contains(message, PilotInactiveMsg)
    /\ Contains(message, PilotActiveMsg)

IsIndicatorMsg(message) ==
    Contains(message, PilotInactiveMsg) \/ Contains(message, PilotActiveMsg)

----------------------------------------------------------------------------
(* Exact rationals standing for Python floats *)

RECURSIVE GCD(_, _)
GCD(a, b) == IF b = 0 THEN a ELSE GCD(b, a % b)

Abs(x) == IF x < 0 THEN -x ELSE x

Rat(n, d) ==
    LET s == IF d < 0 THEN -1 ELSE 1
        g == GCD(Abs(n), Abs(d))
    IN  [num |-> (s * n) \div g, den |-> (s * d) \div g]

RatInt(n) == [num |-> n, den |-> 1]
RatSub(a, b) == Rat(a.num * b.den - b.num * a.den, a.den * b.den)
RatAdd(a, b) == Rat(a.num * b.den + b.num * a.den, a.den * b.den)
RatMul(a, b) == Rat(a.num * b.num, a.den * b.den)
RatDiv(a, b) == Rat(a.num * b.den, a.den * b.num)
RatLess(a, b) == a.num * b.den < b.num * a.den
RatLeq(a, b) == a.num * b.den <= b.num * a.den

(* Timedelta.total_seconds() of a difference of whole-minute timestamps *)
total_seconds(delta) == delta * 60

(* Python truthiness of `outage_start`: None is falsy, a Timestamp truthy *)
Truthy(x) == x # None

(* variant: the default of the lookup is True *)
GetOngoingDefaultTrue(o) == IF "ongoing" \in DOMAIN o THEN o.ongoing ELSE TRUE

(* dict.get(key, default) for the 'ongoing' key *)
GetOngoing(o) == IF "ongoing" \in DOMAIN o THEN o.ongoing ELSE FALSE

----------------------------------------------------------------------------
(* Input tables *)

(* a cell of the 'Time' column as read from the file: the text of minute t *)
RawTime(t) == <<"T", t>>

(* a cell of the 'Time' column that pd.to_datetime cannot parse *)
BadTime == <<"X">>

RawTimes == {RawTime(t) : t \in Times}

ColumnSets == {{"Time", "Message"}, {"Message"}, {"Time"}}

RowsFor(cols) ==
    IF cols = {"Time", "Message"} THEN [Time : RawTimes, Message : Messages]
    ELSE IF cols = {"Time"} THEN [Time : RawTimes]
    ELSE [Message : Messages]

SeqsUpTo(S, n) == UNION {[1 .. k -> S] : k \in 0 .. n}

(* rows of a table some of whose 'Time' cells cannot be parsed *)
UnparseableRows ==
    {rs \in SeqsUpTo([Time : RawTimes \cup {BadTime}, Message : Messages],
                     MaxBadRows) :
        \E k \in 1 .. Len(rs) : rs[k].Time = BadTime}

(* the tables a data file may hold *)
Tables ==
    UNION {{[columns |-> cols, rows |-> rs] :
                rs \in SeqsUpTo(RowsFor(cols), MaxRows)} : cols \in ColumnSets}
    \cup
    {[columns |-> {"Time", "Message"}, rows |-> rs] : rs \in UnparseableRows}

(* the kinds of data file: load_data reads a csv, pd.read_excel the others *)
Extensions == {"csv", "xlsx"}

(* reporting windows, first_day <= last_day *)
Windows ==
    {w \in [first_day : Times, last_day : Times] : w.first_day <= w.last_day}

----------------------------------------------------------------------------
(* PilotDataAnalyzer.__init__ : the EPA thresholds *)

MAX_OUTAGES_PER_MONTH == 10
MAX_OUTAGE_DURATION_MINUTES == 60
MIN_AVAILABILITY_PERCENT == RatInt(99)

----------------------------------------------------------------------------
(* identify_outages *)

(* variant: the duration is taken as start - end *)
CompletedOutageSwapped(start, end) ==
    LET duration == start - end
        duration_minutes == Rat(total_seconds(duration), 60)
    IN  [start |-> start, end |-> end, duration |-> duration,
         duration_minutes |-> duration_minutes]

(* the outage dict appended when a 'Pilot Active' row closes an outage *)
CompletedOutage(start, end) ==
    LET duration == end - start
        duration_minutes == Rat(total_seconds(duration), 60)
    IN  [start |-> start, end |-> end, duration |-> duration,
         duration_minutes |-> duration_minutes]

(* variant: the duration of the ongoing outage is taken as start - end *)
OngoingOutageSwapped(start, end) ==
    LET duration == start - end
        duration_minutes == Rat(total_seconds(duration), 60)
    IN  [start |-> start, end |-> end, duration |-> duration,
         duration_minutes |-> duration_minutes, ongoing |-> TRUE]

(* the outage dict appended after the loop when the data ends in an outage *)
OngoingOutage(start, end) ==
    LET duration == end - start
        duration_minutes == Rat(total_seconds(duration), 60)
    IN  [start |-> start, end |-> end, duration |-> duration,
         duration_minutes |-> duration_minutes, ongoing |-> TRUE]

(* the locals of identify_outages before the loop *)
ScanInit == [in_outage |-> FALSE, outage_start |-> None, outages |-> <<>>]

(* variant: 'Pilot Active' does not leave the outage (in_outage stays set) *)
ScanStepNoReset(st, row) ==
    LET message == row.Message
        timestamp == row.Time
    IN  IF IsInactiveMsg(message)
        THEN IF ~ st.in_outage
             THEN [st EXCEPT !.in_outage = TRUE, !.outage_start = timestamp]
             ELSE st
        ELSE IF IsActiveMsg(message)
        THEN IF st.in_outage
             THEN [st EXCEPT !.outages = Append(st.outages,
                                    CompletedOutage(st.outage_start, timestamp))]
             ELSE st
        ELSE st

(* variant: every 'Pilot Inactive' overwrites the pending start *)
ScanStepOverwriteStart(st, row) ==
    LET message == row.Message
        timestamp == row.Time
    IN  IF IsInactiveMsg(message)
        THEN [st EXCEPT !.in_outage = TRUE, !.outage_start = timestamp]
        ELSE IF IsActiveMsg(message)
        THEN IF st.in_outage
             THEN [st EXCEPT !.in_outage = FALSE,
                             !.outages = Append(st.outages,
                                    CompletedOutage(st.outage_start, timestamp))]
             ELSE st
        ELSE st

(* variant: 'Pilot Active' closes an outage without testing in_outage *)
ScanStepUnguardedActive(st, row) ==
    LET message == row.Message
        timestamp == row.Time
    IN  IF IsInactiveMsg(message)
        THEN IF ~ st.in_outage
             THEN [st EXCEPT !.in_outage = TRUE, !.outage_start = timestamp]
             ELSE st
        ELSE IF IsActiveMsg(message)
        THEN [st EXCEPT !.in_outage = FALSE,
                        !.outages = Append(st.outages,
                               CompletedOutage(st.outage_start, timestamp))]
        ELSE st

(* variant: a plain `else` in place of the elif, so that every row that is *)
(* not 'Pilot Inactive' ends the outage                                    *)
ScanStepElse(st, row) ==
    LET message == row.Message
        timestamp == row.Time
    IN  IF IsInactiveMsg(message)
        THEN IF ~ st.in_outage
             THEN [st EXCEPT !.in_outage = TRUE, !.outage_start = timestamp]
             ELSE st
        ELSE IF st.in_outage
             THEN [st EXCEPT !.in_outage = FALSE,
                             !.outages = Append(st.outages,
                                    CompletedOutage(st.outage_start, timestamp))]
             ELSE st

(* one iteration of the loop over df.iterrows() *)
ScanStep(st, row) ==
    LET message == row.Message
        timestamp == row.Time
    IN  IF IsInactiveMsg(message)
        THEN IF ~ st.in_outage
             THEN [st EXCEPT !.in_outage = TRUE, !.outage_start = timestamp]
             ELSE st
        ELSE IF IsActiveMsg(message)
        THEN IF st.in_outage
             THEN [st EXCEPT !.in_outage = FALSE,
                             !.outages = Append(st.outages,
                                    CompletedOutage(st.outage_start, timestamp))]
             ELSE st
        ELSE st

(* variant: the ongoing outage is closed at the first row (iloc[0]) *)
ScanFinalFirstRow(st, rows) ==
    IF st.in_outage /\ Truthy(st.outage_start)
    THEN Append(st.outages, OngoingOutage(st.outage_start, rows[1].Time))
    ELSE st.outages

(* variant: the block tests outage_start only, not in_outage *)
ScanFinalStartOnly(st, rows) ==
    IF Truthy(st.outage_start)
    THEN Append(st.outages, OngoingOutage(st.outage_start, rows[Len(rows)].Time))
    ELSE st.outages

(* the block after the loop: close an outage still open at the end *)
ScanFinal(st, rows) ==
    IF st.in_outage /\ Truthy(st.outage_start)
    THEN Append(st.outages, OngoingOutage(st.outage_start, rows[Len(rows)].Time))
    ELSE st.outages

RECURSIVE ScanAll(_, _, _)
ScanAll(st, rows, k) ==
    IF k > Len(rows) THEN st ELSE ScanAll(ScanStep(st, rows[k]), rows, k + 1)

(* identify_outages as a function of the rows of its DataFrame *)
identify_outages(rows) == ScanFinal(ScanAll(ScanInit, rows, 1), rows)

----------------------------------------------------------------------------
(* calculate_availability *)

RECURSIVE SumDurationMinutes(_)
SumDurationMinutes(os) ==
    IF os = <<>> THEN RatInt(0)
    ELSE RatAdd(os[1].duration_minutes, SumDurationMinutes(Tail(os)))

(* variant: the number of rows is taken for the minutes of the month *)
TotalMinutesRowCount(rows, md) == RatInt(Len(rows))

(* total minutes in the month: the wall-clock length of the window *)
TotalMinutes(rows, md) == Rat(total_seconds(md.last_day - md.first_day), 60)

(* variant: the outage minutes are added to the minutes of the month *)
calculate_availabilityAdded(rows, os, md) ==
    LET total_minutes == TotalMinutes(rows, md)
        total_outage_minutes == SumDurationMinutes(os)
    IN  IF total_minutes.num = 0
        THEN RatInt(0)
        ELSE RatMul(RatDiv(RatAdd(total_minutes, total_outage_minutes),
                           total_minutes),
                    RatInt(100))

calculate_availability(rows, os, md) ==
    LET total_minutes == TotalMinutes(rows, md)
        total_outage_minutes == SumDurationMinutes(os)
    IN  IF total_minutes.num = 0
        THEN RatInt(0)   \* ZeroDivisionError caught by the except: return 0.0
        ELSE RatMul(RatDiv(RatSub(total_minutes, total_outage_minutes),
                           total_minutes),
                    RatInt(100))

----------------------------------------------------------------------------
(* check_epa_compliance *)

(* f"{x:.2f}" : the number of hundredths nearest to x *)
Format2f(x) == (2 * 100 * x.num + x.den) \div (2 * x.den)

(* variant: an outage of exactly the maximum duration counts as long *)
LongOutagesAtLimit(os) ==
    SelectSeq(os, LAMBDA o :
        RatLeq(RatInt(self.MAX_OUTAGE_DURATION_MINUTES), o.duration_minutes))

LongOutages(os) ==
    SelectSeq(os, LAMBDA o :
        RatLess(RatInt(self.MAX_OUTAGE_DURATION_MINUTES), o.duration_minutes))

(* variant: the maximum number of outages itself is a violation *)
CountIssueAtLimit(os) ==
    IF Len(os) >= self.MAX_OUTAGES_PER_MONTH
    THEN << <<"Exceeded maximum outages", Len(os),
              self.MAX_OUTAGES_PER_MONTH>> >>
    ELSE <<>>

CountIssue(os) ==
    IF Len(os) > self.MAX_OUTAGES_PER_MONTH
    THEN << <<"Exceeded maximum outages", Len(os),
              self.MAX_OUTAGES_PER_MONTH>> >>
    ELSE <<>>

(* variant: the rule is violated only when every outage is long *)
DurationIssueAllLong(os) ==
    IF os # <<>> /\ Len(LongOutages(os)) = Len(os)
    THEN << <<"Found outage(s) exceeding minutes", Len(LongOutages(os)),
              self.MAX_OUTAGE_DURATION_MINUTES>> >>
    ELSE <<>>

DurationIssue(os) ==
    IF LongOutages(os) # <<>>
    THEN << <<"Found outage(s) exceeding minutes", Len(LongOutages(os)),
              self.MAX_OUTAGE_DURATION_MINUTES>> >>
    ELSE <<>>

(* variant: an availability of exactly the minimum is a violation *)
AvailabilityIssueAtLimit(availability) ==
    IF RatLeq(availability, self.MIN_AVAILABILITY_PERCENT)
    THEN << <<"Availability below minimum", Format2f(availability),
              self.MIN_AVAILABILITY_PERCENT.num>> >>
    ELSE <<>>

AvailabilityIssue(availability) ==
    IF RatLess(availability, self.MIN_AVAILABILITY_PERCENT)
    THEN << <<"Availability below minimum", Format2f(availability),
              self.MIN_AVAILABILITY_PERCENT.num>> >>
    ELSE <<>>

(* variant: the evaluation stops at the first violated rule *)
check_epa_complianceFirstOnly(os, availability) ==
    LET compliance_issues ==
            IF CountIssue(os) # <<>> THEN CountIssue(os)
            ELSE IF DurationIssue(os) # <<>> THEN DurationIssue(os)
            ELSE AvailabilityIssue(availability)
        is_compliant == Len(compliance_issues) = 0
        status == IF is_compliant THEN "COMPLIANT" ELSE "NON-COMPLIANT"
    IN  [compliant |-> is_compliant, status |-> status,
         issues |-> compliance_issues]

check_epa_compliance(os, availability) ==
    LET compliance_issues ==
            CountIssue(os) \o DurationIssue(os) \o AvailabilityIssue(availability)
        is_compliant == Len(compliance_issues) = 0
        status == IF is_compliant THEN "COMPLIANT" ELSE "NON-COMPLIANT"
    IN  [compliant |-> is_compliant, status |-> status,
         issues |-> compliance_issues]

----------------------------------------------------------------------------
(* calculate_statistics *)

Durations(os) == [k \in 1 .. Len(os) |-> os[k].duration_minutes]

(* x put at its place in the ascending sequence sd *)
InsertRat(x, sd) ==
    SelectSeq(sd, LAMBDA y : RatLeq(y, x)) \o <<x>>
        \o SelectSeq(sd, LAMBDA y : ~RatLeq(y, x))

(* the durations in ascending order, as np.median, np.max and np.min *)
(* see them                                                          *)
RECURSIVE SortedDurations(_)
SortedDurations(ds) ==
    IF ds = <<>> THEN <<>>
    ELSE InsertRat(ds[1], SortedDurations(Tail(ds)))

RECURSIVE SumRat(_)
SumRat(ds) == IF ds = <<>> THEN RatInt(0) ELSE RatAdd(ds[1], SumRat(Tail(ds)))

Mean(ds) == RatDiv(SumRat(ds), RatInt(Len(ds)))

Median(ds) ==
    LET sd == SortedDurations(ds)
        n == Len(ds)
    IN  IF n % 2 = 1 THEN sd[(n + 1) \div 2]
        ELSE RatDiv(RatAdd(sd[n \div 2], sd[n \div 2 + 1]), RatInt(2))

(* population variance; np.std is its square root *)
Variance(ds) ==
    LET m == Mean(ds)
    IN  Mean([k \in 1 .. Len(ds) |->
                RatMul(RatSub(ds[k], m), RatSub(ds[k], m))])

(* variant: no early return for an empty list; numpy then gives nan *)
calculate_statisticsNoEmptyCase(os) ==
    LET ds == Durations(os)
        sd == SortedDurations(ds)
        nan == [num |-> 0, den |-> 0]
    IN  IF os = <<>>
        THEN [mean_duration_minutes |-> nan,
              median_duration_minutes |-> nan,
              max_duration_minutes |-> nan,
              min_duration_minutes |-> nan,
              std_duration_minutes |-> nan]
        ELSE [mean_duration_minutes |-> Mean(ds),
              median_duration_minutes |-> Median(ds),
              max_duration_minutes |-> sd[Len(sd)],
              min_duration_minutes |-> sd[1],
              std_duration_minutes |-> [sqrt_of |-> Variance(ds)]]

calculate_statistics(os) ==
    IF os = <<>>
    THEN [mean_duration_minutes |-> RatInt(0),
          median_duration_minutes |-> RatInt(0),
          max_duration_minutes |-> RatInt(0),
          min_duration_minutes |-> RatInt(0),
          std_duration_minutes |-> RatInt(0)]
    ELSE LET ds == Durations(os)
             sd == SortedDurations(ds)
         IN  [mean_duration_minutes |-> Mean(ds),
              median_duration_minutes |-> Median(ds),
              max_duration_minutes |-> sd[Len(sd)],
              min_duration_minutes |-> sd[1],
              std_duration_minutes |-> [sqrt_of |-> Variance(ds)]]

----------------------------------------------------------------------------
(* analyze_data: the state before the call *)

NoDf == [columns |-> {}, rows |-> <<>>, time_dtype |-> "none"]
NotComputed == [computed |-> FALSE]
NotReturned == [returned |-> FALSE]

(* PilotDataAnalyzer.__init__ *)
__init__ ==
    [MAX_OUTAGES_PER_MONTH |-> MAX_OUTAGES_PER_MONTH,
     MAX_OUTAGE_DURATION_MINUTES |-> MAX_OUTAGE_DURATION_MINUTES,
     MIN_AVAILABILITY_PERCENT |-> MIN_AVAILABILITY_PERCENT]

(* the table of the data file is not fixed beforehand *)
UnknownFile == [known |-> FALSE]

(* the tables load_data may find in the data file *)
FileTables == IF file.known THEN {file.table} ELSE Tables

(* no second call, no sort done yet, run_automation not running, no report *)
NoFrame == [called |-> FALSE]
NotRunning == [stage |-> "not_called"]

OneCallOnly ==
    /\ suspended = NoFrame
    /\ argsort = <<>>
    /\ automation = NotRunning
    /\ story = <<>>

Init ==
    /\ self = __init__
    /\ file = UnknownFile
    /\ OneCallOnly
    /\ month_data \in Windows
    /\ pc = "load"
    /\ df = NoDf
    /\ i = 0
    /\ in_outage = FALSE
    /\ outage_start = None
    /\ outages = <<>>
    /\ availability_percent = NotComputed
    /\ compliance = NotComputed
    /\ stats = NotComputed
    /\ result = NotReturned

scanVars == <<i, in_outage, outage_start, outages>>
laterVars == <<availability_percent, compliance, stats>>

(* return of a Failure dict *)
Fail(error) ==
    /\ pc' = "done"
    /\ result' = [success |-> FALSE, error |-> error]

(* return from the `except Exception` handler of analyze_data *)
FailWithDetails(error) ==
    /\ pc' = "done"
    /\ result' = [success |-> FALSE, error |-> error, details |-> "traceback"]

(* pd.read_excel / load_data returned a DataFrame holding the file's table *)
LoadData ==
    /\ pc = "load"
    /\ \E table \in FileTables :
          df' = [columns |-> table.columns, rows |-> table.rows,
                 time_dtype |-> "object"]
    /\ pc' = "check_columns"
    /\ UNCHANGED <<contextVars, month_data, scanVars, laterVars, result>>

(* the file cannot be read: load_data returned None (csv), or              *)
(* pd.read_excel raised (xlsx/xls)                                         *)
LoadDataFails ==
    /\ pc = "load"
    /\ \E ext \in Extensions :
          IF ext = "csv"
          THEN Fail("Failed to load data file")
          ELSE FailWithDetails("read_excel error")
    /\ UNCHANGED <<contextVars, month_data, df, scanVars, laterVars>>

(* variant: only the 'Time' column is required *)
CheckColumnsTimeOnly ==
    /\ pc = "check_columns"
    /\ ~ ("Time" \notin df.columns)
    /\ pc' = "parse_timestamps"
    /\ UNCHANGED <<contextVars, month_data, df, scanVars, laterVars, result>>

(* the required columns are present *)
CheckColumns ==
    /\ pc = "check_columns"
    /\ ~ ("Time" \notin df.columns \/ "Message" \notin df.columns)
    /\ pc' = "parse_timestamps"
    /\ UNCHANGED <<contextVars, month_data, df, scanVars, laterVars, result>>

(* a required column is missing: Failure listing the columns found *)
CheckColumnsFails ==
    /\ pc = "check_columns"
    /\ "Time" \notin df.columns \/ "Message" \notin df.columns
    /\ Fail(<<"Required columns not found", df.columns>>)
    /\ UNCHANGED <<contextVars, month_data, df, scanVars, laterVars>>

(* pd.to_datetime of one cell *)
to_datetime(cell) == cell[2]

Parseable(rows) == \A k \in 1 .. Len(rows) : rows[k].Time # BadTime

(* parse_timestamps: the column is converted as a whole, or, when          *)
(* pd.to_datetime raises, the exception is caught and df returned as is    *)
parse_timestamps(d) ==
    IF Parseable(d.rows)
    THEN [d EXCEPT !.rows = [k \in 1 .. Len(d.rows) |->
                                [d.rows[k] EXCEPT !.Time = to_datetime(@)]],
                   !.time_dtype = "datetime64"]
    ELSE d

ParseTimestamps ==
    /\ pc = "parse_timestamps"
    /\ df' = parse_timestamps(df)
    /\ pc' = "sort"
    /\ UNCHANGED <<contextVars, month_data, scanVars, laterVars, result>>

(* the order sort_values uses on the 'Time' column: timestamps by value,   *)
(* unparsed text by its characters (an unparseable cell sorts last)        *)
SortKey(d, cell) ==
    IF d.time_dtype = "datetime64" THEN cell
    ELSE IF cell = BadTime THEN MaxTime + 1 ELSE cell[2]

(* the orders in which a set of row positions can be laid out *)
RECURSIVE Orders(_)
Orders(S) ==
    IF S = {} THEN {<<>>}
    ELSE UNION {{<<x>> \o p : p \in Orders(S \ {x})} : x \in S}

(* the orders of rows equal under the sort key: the default kind of        *)
(* sort_values ('quicksort') is not a stable sort, so rows with equal      *)
(* 'Time' may come out in any order                                        *)
TieOrders(S) == Orders(S)

(* the results of df.sort_values('Time') as sequences of row positions:    *)
(* ascending by key, smallest key first                                    *)
RECURSIVE SortOrders(_, _)
SortOrders(d, S) ==
    IF S = {} THEN {<<>>}
    ELSE LET least == {k \in S : \A j \in S :
                         SortKey(d, d.rows[k].Time) <= SortKey(d, d.rows[j].Time)}
         IN  UNION {{p \o q : q \in SortOrders(d, S \ least)} :
                        p \in TieOrders(least)}

SortValues ==
    /\ pc = "sort"
    /\ \E f \in SortOrders(df, 1 .. Len(df.rows)) :
          df' = [df EXCEPT !.rows = [k \in 1 .. Len(df.rows) |-> df.rows[f[k]]]]
    /\ pc' = "filter"
    /\ UNCHANGED <<contextVars, month_data, scanVars, laterVars, result>>

(* variant: the last day itself is outside the window *)
InWindowBeforeLastDay(md, timestamp) ==
    (timestamp >= md.first_day) /\ (timestamp < md.last_day)

(* the mask of the date-range filter *)
InWindow(md, timestamp) ==
    (timestamp >= md.first_day) /\ (timestamp <= md.last_day)

(* variant: the mask is not applied, every row is kept *)
FilterToMonthKeepsAll ==
    /\ pc = "filter"
    /\ df.time_dtype = "datetime64"
    /\ pc' = "identify_outages"
    /\ UNCHANGED <<contextVars, month_data, df, scanVars, laterVars, result>>

(* df[(df['Time'] >= first_day) & (df['Time'] <= last_day)] *)
FilterToMonth ==
    /\ pc = "filter"
    /\ df.time_dtype = "datetime64"
    /\ df' = [df EXCEPT !.rows =
                SelectSeq(df.rows, LAMBDA r : InWindow(month_data, r.Time))]
    /\ pc' = "identify_outages"
    /\ UNCHANGED <<contextVars, month_data, scanVars, laterVars, result>>

(* comparing an unparsed (object) column with a datetime raises TypeError, *)
(* which the `except Exception` of analyze_data turns into a Failure       *)
FilterToMonthFails ==
    /\ pc = "filter"
    /\ df.time_dtype # "datetime64"
    /\ FailWithDetails("TypeError")
    /\ UNCHANGED <<contextVars, month_data, df, scanVars, laterVars>>

----------------------------------------------------------------------------
(* analyze_data: the call of identify_outages, one action per loop step *)

ScanState == [in_outage |-> in_outage, outage_start |-> outage_start,
              outages |-> outages]

(* the row the next iteration of df.iterrows() visits *)
NextRow == df.rows[i + 1]

SetScanState(st) ==
    /\ in_outage' = st.in_outage
    /\ outage_start' = st.outage_start
    /\ outages' = st.outages

(* entry of identify_outages: its locals are initialised *)
IdentifyOutagesBegin ==
    /\ pc = "identify_outages"
    /\ SetScanState(ScanInit)
    /\ i' = 0
    /\ pc' = "scan"
    /\ UNCHANGED <<contextVars, month_data, df, laterVars, result>>

(* loop step on a row whose message contains 'Pilot Inactive' *)
ScanInactiveRow ==
    /\ pc = "scan"
    /\ i < Len(df.rows)
    /\ IsInactiveMsg(NextRow.Message)
    /\ SetScanState(ScanStep(ScanState, NextRow))
    /\ i' = i + 1
    /\ UNCHANGED <<contextVars, month_data, pc, df, laterVars, result>>

(* loop step on a row whose message contains 'Pilot Active' (elif branch) *)
ScanActiveRow ==
    /\ pc = "scan"
    /\ i < Len(df.rows)
    /\ IsActiveMsg(NextRow.Message)
    /\ SetScanState(ScanStep(ScanState, NextRow))
    /\ i' = i + 1
    /\ UNCHANGED <<contextVars, month_data, pc, df, laterVars, result>>

(* loop step on a row that takes neither branch *)
ScanOtherRow ==
    /\ pc = "scan"
    /\ i < Len(df.rows)
    /\ ~ IsInactiveMsg(NextRow.Message)
    /\ ~ IsActiveMsg(NextRow.Message)
    /\ SetScanState(ScanStep(ScanState, NextRow))
    /\ i' = i + 1
    /\ UNCHANGED <<contextVars, month_data, pc, df, laterVars, result>>

(* after the loop: the ongoing outage, if any, is closed; return outages *)
FinalizeOutages ==
    /\ pc = "scan"
    /\ i = Len(df.rows)
    /\ outages' = ScanFinal(ScanState, df.rows)
    /\ pc' = "availability"
    /\ UNCHANGED <<contextVars, month_data, df, i, in_outage, outage_start,
                   laterVars, result>>

----------------------------------------------------------------------------
(* analyze_data: availability, compliance, statistics, summary *)

CalculateAvailability ==
    /\ pc = "availability"
    /\ availability_percent' = calculate_availability(df.rows, outages, month_data)
    /\ pc' = "compliance"
    /\ UNCHANGED <<contextVars, month_data, df, scanVars, compliance, stats, result>>

CheckCompliance ==
    /\ pc = "compliance"
    /\ compliance' = check_epa_compliance(outages, availability_percent)
    /\ pc' = "statistics"
    /\ UNCHANGED <<contextVars, month_data, df, scanVars, availability_percent,
                   stats, result>>

CalculateStatistics ==
    /\ pc = "statistics"
    /\ stats' = calculate_statistics(outages)
    /\ pc' = "summary"
    /\ UNCHANGED <<contextVars, month_data, df, scanVars, availability_percent,
                   compliance, result>>

(* variant: the summary's status is derived from the outage count alone *)
SummaryStatusFromCount ==
    [total_outages |-> Len(outages),
     total_outage_minutes |-> SumDurationMinutes(outages),
     availability_percent |-> availability_percent,
     epa_compliance |-> IF Len(outages) = 0 THEN "COMPLIANT"
                        ELSE "NON-COMPLIANT",
     compliance_details |-> compliance,
     statistics |-> stats]

Summary ==
    [total_outages |-> Len(outages),
     total_outage_minutes |-> SumDurationMinutes(outages),
     availability_percent |-> availability_percent,
     epa_compliance |-> compliance.status,
     compliance_details |-> compliance,
     statistics |-> stats]

(* the Success dict is returned *)
ReturnSuccess ==
    /\ pc = "summary"
    /\ result' = [success |-> TRUE, data |-> df, outages |-> outages,
                  summary |-> Summary, month_data |-> month_data]
    /\ pc' = "done"
    /\ UNCHANGED <<contextVars, month_data, df, scanVars, laterVars>>

Next ==
    \/ LoadData
    \/ LoadDataFails
    \/ CheckColumns
    \/ CheckColumnsFails
    \/ ParseTimestamps
    \/ SortValues
    \/ FilterToMonth
    \/ FilterToMonthFails
    \/ IdentifyOutagesBegin
    \/ ScanInactiveRow
    \/ ScanActiveRow
    \/ ScanOtherRow
    \/ FinalizeOutages
    \/ CalculateAvailability
    \/ CheckCompliance
    \/ CalculateStatistics
    \/ ReturnSuccess

Spec == Init /\ [][Next]_vars

----------------------------------------------------------------------------
(* report_generator.py: _create_outage_details, the cells of one table row *)

OutageStatus(outage) == IF GetOngoing(outage) THEN "Ongoing" ELSE "Resolved"

----------------------------------------------------------------------------
(* Positions of analyze_data used by the properties *)

(* identify_outages has returned and `outages` holds the returned list *)
OutagesReturned ==
    \/ pc \in {"availability", "compliance", "statistics", "summary"}
    \/ pc = "done" /\ result.success

(* calculate_availability has returned *)
AvailabilityReturned ==
    \/ pc \in {"compliance", "statistics", "summary"}
    \/ pc = "done" /\ result.success

(* the loop of identify_outages is about to visit a row *)
AtRow == pc = "scan" /\ i < Len(df.rows)

WindowMinutes == month_data.last_day - month_data.first_day

RECURSIVE SumSpans(_)
SumSpans(os) ==
    IF os = <<>> THEN 0 ELSE (os[1].end - os[1].start) + SumSpans(Tail(os))

----------------------------------------------------------------------------
(* C1: the outages returned by identify_outages for a chronologically      *)
(* ordered stream are pairwise non-overlapping and sorted by start: for    *)
(* consecutive outages, end(k) <= start(k+1) and start(k) <= start(k+1).   *)
C1_NonOverlapSorted ==
    OutagesReturned =>
        \A k \in 1 .. Len(outages) - 1 :
            /\ outages[k].end <= outages[k + 1].start
            /\ outages[k].start <= outages[k + 1].start

C1_Witness ==
    /\ OutagesReturned
    /\ Len(outages) >= 2
    /\ outages[1].start < outages[1].end
    /\ outages[1].end < outages[2].start

(* C2: the machine starts ACTIVE; 'Pilot Inactive' seen in ACTIVE moves it *)
(* to INACTIVE and records the event's timestamp as pending start; 'Pilot  *)
(* Inactive' seen in INACTIVE changes neither the state, nor the pending   *)
(* start, nor the emitted outages.                                         *)
C2_InactiveTransition ==
    [][ /\ (pc = "identify_outages" /\ pc' = "scan") => in_outage' = FALSE
        /\ (AtRow /\ IsInactiveMsg(NextRow.Message)) =>
              IF ~ in_outage
              THEN /\ in_outage' = TRUE
                   /\ outage_start' = NextRow.Time
                   /\ outages' = outages
              ELSE UNCHANGED <<in_outage, outage_start, outages>>
      ]_vars

C2_Witness ==
    /\ pc = "scan"
    /\ i >= 2
    /\ IsInactiveMsg(df.rows[i - 1].Message)
    /\ IsInactiveMsg(df.rows[i].Message)
    /\ df.rows[i - 1].Time < df.rows[i].Time
    /\ in_outage
    /\ outage_start = df.rows[i - 1].Time

(* C3: 'Pilot Active' seen in INACTIVE moves the machine to ACTIVE and     *)
(* appends exactly one completed outage: start = pending start, end = the  *)
(* event's timestamp, duration = end - start, not ongoing.                 *)
C3_ActiveTransition ==
    [][ (AtRow /\ IsActiveMsg(NextRow.Message) /\ in_outage) =>
            /\ in_outage' = FALSE
            /\ Len(outages') = Len(outages) + 1
            /\ SubSeq(outages', 1, Len(outages)) = outages
            /\ LET o == outages'[Len(outages')]
               IN  /\ o.start = outage_start
                   /\ o.end = NextRow.Time
                   /\ o.duration = o.end - o.start
                   /\ o.duration_minutes = RatInt(NextRow.Time - outage_start)
                   /\ ~ GetOngoing(o)
      ]_vars

C3_Witness ==
    /\ pc = "scan"
    /\ i >= 2
    /\ IsInactiveMsg(df.rows[i - 1].Message)
    /\ IsActiveMsg(df.rows[i].Message)
    /\ ~ in_outage
    /\ Len(outages) = 1
    /\ outages[1].start = df.rows[i - 1].Time
    /\ outages[1].end = df.rows[i].Time
    /\ outages[1].duration > 0

(* C4: when the scan ends INACTIVE, exactly one final outage is appended,  *)
(* with start = pending start, end = timestamp of the last row of the      *)
(* normalized stream (whatever its message) and ongoing = true; when it    *)
(* ends ACTIVE nothing is appended.                                        *)
C4_Finalization ==
    [][ (pc = "scan" /\ pc' # "scan") =>
            IF in_outage
            THEN /\ Len(df.rows) > 0
                 /\ Len(outages') = Len(outages) + 1
                 /\ SubSeq(outages', 1, Len(outages)) = outages
                 /\ LET o == outages'[Len(outages')]
                    IN  /\ o.start = outage_start
                        /\ o.end = df.rows[Len(df.rows)].Time
                        /\ "ongoing" \in DOMAIN o
                        /\ o.ongoing = TRUE
            ELSE outages' = outages
      ]_vars

C4_Witness ==
    /\ pc = "availability"
    /\ in_outage
    /\ ~ IsIndicatorMsg(df.rows[Len(df.rows)].Message)
    /\ outage_start < df.rows[Len(df.rows)].Time
    /\ Len(outages) = 1
    /\ GetOngoing(outages[1])
    /\ outages[1].end = df.rows[Len(df.rows)].Time

(* C5: 'Pilot Active' seen in ACTIVE is a no-op (no outage emitted, no     *)
(* state changed), so every returned outage has a start that is the        *)
(* timestamp of a 'Pilot Inactive' row located before the row that ends it *)
C5_ActiveWhileActiveNoOp ==
    /\ [][ (AtRow /\ IsActiveMsg(NextRow.Message) /\ ~ in_outage) =>
                UNCHANGED <<in_outage, outage_start, outages>> ]_vars
    /\ [](OutagesReturned =>
            \A k \in 1 .. Len(outages) :
                \E a \in 1 .. Len(df.rows) :
                    /\ IsInactiveMsg(df.rows[a].Message)
                    /\ df.rows[a].Time = outages[k].start
                    /\ outages[k].start <= outages[k].end
                    /\ GetOngoing(outages[k]) \/
                         \E b \in (a + 1) .. Len(df.rows) :
                            /\ IsActiveMsg(df.rows[b].Message)
                            /\ df.rows[b].Time = outages[k].end)

C5_Witness ==
    /\ pc = "scan"
    /\ i >= 1
    /\ IsActiveMsg(df.rows[1].Message)
    /\ i < Len(df.rows)
    /\ IsActiveMsg(NextRow.Message)
    /\ ~ in_outage
    /\ outage_start = None
    /\ outages = <<>>

(* the stream with every row that is neither indicator removed *)
IndicatorRows(rows) == SelectSeq(rows, LAMBDA r : IsIndicatorMsg(r.Message))

(* C6 as stated: identify_outages returns the same list for the stream     *)
(* with all non-indicator events removed.                                  *)
C6_SameAsWithoutOtherRows ==
    OutagesReturned => outages = identify_outages(IndicatorRows(df.rows))

(* C6 amended: removing the non-indicator events leaves the number of      *)
(* outages, their starts, their ongoing flags and every completed outage   *)
(* unchanged; only the end of a final ongoing outage may differ, since it  *)
(* is the timestamp of the last row of the stream that was scanned; the    *)
(* two lists are equal when the scan ends ACTIVE or the last row of the    *)
(* stream is an indicator event.                                           *)
C6_SameUpToOngoingEnd ==
    OutagesReturned =>
        LET kept == IndicatorRows(df.rows)
            other == identify_outages(kept)
        IN  /\ Len(other) = Len(outages)
            /\ \A k \in 1 .. Len(outages) :
                  /\ other[k].start = outages[k].start
                  /\ GetOngoing(other[k]) = GetOngoing(outages[k])
                  /\ ~ GetOngoing(outages[k]) => other[k] = outages[k]
                  /\ GetOngoing(outages[k]) =>
                        /\ outages[k].end = df.rows[Len(df.rows)].Time
                        /\ other[k].end = kept[Len(kept)].Time
            /\ (~ in_outage \/ IsIndicatorMsg(df.rows[Len(df.rows)].Message))
                  => other = outages

C6_Witness ==
    /\ OutagesReturned
    /\ Len(outages) >= 1
    /\ GetOngoing(outages[Len(outages)])
    /\ \E k \in 1 .. Len(df.rows) : ~ IsIndicatorMsg(df.rows[k].Message)
    /\ outages # identify_outages(IndicatorRows(df.rows))

(* C7: every returned outage has duration = end - start and a duration     *)
(* that is not negative (start <= end), the ongoing outage included.       *)
C7_DurationNonNegative ==
    OutagesReturned =>
        \A k \in 1 .. Len(outages) :
            /\ outages[k].duration = outages[k].end - outages[k].start
            /\ outages[k].duration >= 0
            /\ outages[k].start <= outages[k].end
            /\ outages[k].duration_minutes = RatInt(outages[k].duration)

C7_Witness ==
    /\ OutagesReturned
    /\ \E k \in 1 .. Len(outages) :
          GetOngoing(outages[k]) /\ outages[k].duration > 0

(* C8 as stated: every outage record handed to the renderer carries the    *)
(* fields start, end, duration_minutes and ongoing, ongoing a boolean.     *)
C8_FourFieldsPresent ==
    (pc = "done" /\ result.success) =>
        \A k \in 1 .. Len(result.outages) :
            /\ {"start", "end", "duration_minutes", "ongoing"}
                  \subseteq DOMAIN result.outages[k]
            /\ result.outages[k].ongoing \in BOOLEAN

(* C8 amended: every outage record handed to the renderer carries start,   *)
(* end, duration and duration_minutes; the key 'ongoing' is present, with  *)
(* value true, exactly on the outage closed at end of stream and absent    *)
(* from an outage closed by 'Pilot Active', which the renderer reads as    *)
(* not ongoing ("Resolved") through outage.get('ongoing', False).          *)
C8_OngoingKeyOnlyWhenTrue ==
    (pc = "done" /\ result.success) =>
        \A k \in 1 .. Len(result.outages) :
            LET o == result.outages[k]
                closedAtEnd == in_outage /\ k = Len(result.outages)
            IN  /\ {"start", "end", "duration", "duration_minutes"}
                      \subseteq DOMAIN o
                /\ ("ongoing" \in DOMAIN o) <=> closedAtEnd
                /\ ("ongoing" \in DOMAIN o) => o.ongoing = TRUE
                /\ OutageStatus(o) =
                      IF closedAtEnd THEN "Ongoing" ELSE "Resolved"

C8_Witness ==
    /\ pc = "done"
    /\ result.success
    /\ Len(result.outages) = 2
    /\ "ongoing" \notin DOMAIN result.outages[1]
    /\ "ongoing" \in DOMAIN result.outages[2]

(* C9: for a window of positive length W = last_day - first_day (minutes), *)
(* calculate_availability returns ((W - S) / W) * 100 with S the sum of    *)
(* duration_minutes of the given outages.                                  *)
C9_AvailabilityFormula ==
    (AvailabilityReturned /\ WindowMinutes > 0) =>
        LET S == SumDurationMinutes(outages)
            W == WindowMinutes
        IN  /\ availability_percent.den > 0
            /\ availability_percent.num * W * S.den
                  = availability_percent.den * 100 * (W * S.den - S.num)

C9_Witness ==
    /\ pc = "compliance"
    /\ WindowMinutes > 0
    /\ SumSpans(outages) > 0
    /\ SumSpans(outages) < WindowMinutes
    /\ Len(df.rows) # WindowMinutes

(* C10: with a zero-length window (first_day = last_day) the analysis      *)
(* returns a Failure, never a Success carrying availability and summary.   *)
C10_DegenerateWindowFails ==
    (pc = "done" /\ month_data.first_day = month_data.last_day) =>
        result.success = FALSE

----------------------------------------------------------------------------
(* The public methods called one by one on a constructed analyzer, with    *)
(* outage lists and windows that analyze_data on the small tables above    *)
(* never produces: up to MaxOutages outages, of which up to MaxLongOutages *)
(* last an hour or more, in windows of 0, 60, 500 and 43200 minutes.       *)

MaxOutages == 11
MaxLongOutages == 2

UnitDurations == {5, 60, 61}
UnitWindowMinutes == {0, 60, 500, 43200}
UnitWindows == {[first_day |-> 0, last_day |-> w] : w \in UnitWindowMinutes}

HourOrMore(os) == SelectSeq(os, LAMBDA o : o.end - o.start >= 60)

UnitInit ==
    /\ self = __init__
    /\ file = UnknownFile
    /\ OneCallOnly
    /\ month_data \in UnitWindows
    /\ pc = "calculate_availability"
    /\ df = NoDf
    /\ i = 0
    /\ in_outage = FALSE
    /\ outage_start = None
    /\ outages = <<>>
    /\ availability_percent = NotComputed
    /\ compliance = NotComputed
    /\ stats = NotComputed
    /\ result = NotReturned

(* the caller extends its outage list by one more outage dict, starting    *)
(* where the previous one ended, before it calls the methods again         *)
UnitAddOutage ==
    /\ pc = "returned"
    /\ Len(outages) < MaxOutages
    /\ \E d \in UnitDurations :
          LET start == IF outages = <<>> THEN 0
                       ELSE outages[Len(outages)].end
          IN  /\ d >= 60 => Len(HourOrMore(outages)) < MaxLongOutages
              /\ outages' = Append(outages, CompletedOutage(start, start + d))
    /\ pc' = "calculate_availability"
    /\ UNCHANGED <<contextVars, month_data, df, i, in_outage, outage_start,
                   laterVars, result>>

UnitCalculateAvailability ==
    /\ pc = "calculate_availability"
    /\ availability_percent' = calculate_availability(df.rows, outages, month_data)
    /\ pc' = "check_epa_compliance"
    /\ UNCHANGED <<contextVars, month_data, df, scanVars, compliance, stats, result>>

UnitCheckCompliance ==
    /\ pc = "check_epa_compliance"
    /\ compliance' = check_epa_compliance(outages, availability_percent)
    /\ pc' = "calculate_statistics"
    /\ UNCHANGED <<contextVars, month_data, df, scanVars, availability_percent,
                   stats, result>>

UnitCalculateStatistics ==
    /\ pc = "calculate_statistics"
    /\ stats' = calculate_statistics(outages)
    /\ pc' = "returned"
    /\ UNCHANGED <<contextVars, month_data, df, scanVars, availability_percent,
                   compliance, result>>

UnitNext ==
    \/ UnitAddOutage
    \/ UnitCalculateAvailability
    \/ UnitCheckCompliance
    \/ UnitCalculateStatistics

UnitSpec == UnitInit /\ [][UnitNext]_vars

(* calculate_availability has returned for the list in `outages` *)
UnitAvailabilityReturned ==
    pc \in {"check_epa_compliance", "calculate_statistics", "returned"}

(* check_epa_compliance has returned for the list in `outages` *)
UnitComplianceReturned == pc \in {"calculate_statistics", "returned"}

----------------------------------------------------------------------------
(* C11: for a window of positive length and outages whose durations sum to *)
(* at most the window length, calculate_availability returns a value       *)
(* between 0 and 100 inclusive.                                            *)
C11_AvailabilityBounded ==
    (/\ UnitAvailabilityReturned
     /\ WindowMinutes > 0
     /\ SumSpans(outages) <= WindowMinutes) =>
        /\ RatLeq(RatInt(0), availability_percent)
        /\ RatLeq(availability_percent, RatInt(100))

C11_Witness ==
    /\ UnitAvailabilityReturned
    /\ WindowMinutes > 0
    /\ SumSpans(outages) = WindowMinutes
    /\ availability_percent = RatInt(0)

(* The three rules, stated on the arguments of check_epa_compliance *)
CountRuleViolated(os) == Len(os) > 10

DurationRuleViolated(os) ==
    \E k \in 1 .. Len(os) :
        os[k].duration_minutes.num > 60 * os[k].duration_minutes.den

AvailabilityRuleViolated(availability) ==
    availability.num < 99 * availability.den

(* the first words of the messages, one per violated rule, in the order    *)
(* count, duration, availability                                           *)
ViolatedRules(os, availability) ==
    (IF CountRuleViolated(os)
        THEN <<"Exceeded maximum outages">> ELSE <<>>)
    \o (IF DurationRuleViolated(os)
        THEN <<"Found outage(s) exceeding minutes">> ELSE <<>>)
    \o (IF AvailabilityRuleViolated(availability)
        THEN <<"Availability below minimum">> ELSE <<>>)

IssueRules(issues) == [k \in 1 .. Len(issues) |-> issues[k][1]]

(* C12: check_epa_compliance evaluates the count, duration and             *)
(* availability rules independently: its issue list holds exactly one      *)
(* message per violated rule, in the order count, duration, availability,  *)
(* so its length is the number of violated rules (0 to 3).                 *)
C12_OneIssuePerViolatedRule ==
    UnitComplianceReturned =>
        /\ IssueRules(compliance.issues)
              = ViolatedRules(outages, availability_percent)
        /\ Len(compliance.issues)
              = Cardinality({r \in {"count"} : CountRuleViolated(outages)})
              + Cardinality({r \in {"duration"} : DurationRuleViolated(outages)})
              + Cardinality({r \in {"availability"} :
                                AvailabilityRuleViolated(availability_percent)})

C12_Witness ==
    /\ UnitComplianceReturned
    /\ CountRuleViolated(outages)
    /\ DurationRuleViolated(outages)
    /\ AvailabilityRuleViolated(availability_percent)
    /\ Len(compliance.issues) = 3

(* check_epa_compliance has returned inside analyze_data *)
ComplianceReturned ==
    \/ pc \in {"statistics", "summary"}
    \/ pc = "done" /\ result.success

(* the three fields of one compliance result agree *)
ComplianceConsistent(c) ==
    /\ c.compliant = (c.issues = <<>>)
    /\ c.status = IF c.compliant THEN "COMPLIANT" ELSE "NON-COMPLIANT"

(* C13: in every compliance result compliant is true exactly when the      *)
(* issue list is empty and status is "COMPLIANT" exactly when compliant is *)
(* true, "NON-COMPLIANT" otherwise; in the summary of every successful     *)
(* analysis epa_compliance equals compliance_details.status.               *)
C13_ComplianceFieldsAgree ==
    /\ ComplianceReturned => ComplianceConsistent(compliance)
    /\ (pc = "done" /\ result.success) =>
          /\ ComplianceConsistent(result.summary.compliance_details)
          /\ result.summary.epa_compliance
                = result.summary.compliance_details.status

C13_Witness ==
    /\ pc = "done"
    /\ result.success
    /\ result.summary.epa_compliance = "COMPLIANT"
    /\ result.summary.compliance_details.issues = <<>>
    /\ result.summary.total_outages > 0

(* the issues of one rule, picked by the first words of their message *)
IssuesOfRule(issues, rule) == SelectSeq(issues, LAMBDA m : m[1] = rule)

(* C14: the outage-count rule is violated exactly when the number n of     *)
(* outages is greater than 10: then the result is non-compliant with the   *)
(* issue "Exceeded maximum outages: n > 10"; for n <= 10, exactly 10       *)
(* included, there is no outage-count issue.                               *)
C14_CountRule ==
    UnitComplianceReturned =>
        LET n == Len(outages)
            found == IssuesOfRule(compliance.issues, "Exceeded maximum outages")
        IN  /\ n > 10 =>
                /\ found = << <<"Exceeded maximum outages", n, 10>> >>
                /\ ~compliance.compliant
                /\ compliance.status = "NON-COMPLIANT"
            /\ n <= 10 => found = <<>>

C14_Witness ==
    /\ UnitComplianceReturned
    /\ Len(outages) = 11
    /\ compliance.issues = << <<"Exceeded maximum outages", 11, 10>> >>
    /\ compliance.status = "NON-COMPLIANT"

(* the outages lasting more than 60 minutes *)
Over60(os) ==
    SelectSeq(os, LAMBDA o :
        o.duration_minutes.num > 60 * o.duration_minutes.den)

(* C15: the single-outage-duration rule is violated exactly when at least  *)
(* one outage lasts more than 60 minutes: then the result is non-compliant *)
(* with one issue that states how many outages exceed 60 minutes; an       *)
(* outage of exactly 60 minutes does not violate the rule.                 *)
C15_DurationRule ==
    UnitComplianceReturned =>
        LET k == Len(Over60(outages))
            found == IssuesOfRule(compliance.issues,
                                  "Found outage(s) exceeding minutes")
        IN  /\ k > 0 =>
                /\ found = << <<"Found outage(s) exceeding minutes", k, 60>> >>
                /\ ~compliance.compliant
                /\ compliance.status = "NON-COMPLIANT"
            /\ k = 0 => found = <<>>

C15_Witness ==
    /\ UnitComplianceReturned
    /\ Len(outages) = 2
    /\ outages[1].duration_minutes = RatInt(60)
    /\ outages[2].duration_minutes = RatInt(61)
    /\ compliance.issues = << <<"Found outage(s) exceeding minutes", 1, 60>> >>

----------------------------------------------------------------------------
(* Every operation of one analyzer: analyze_data and the direct calls *)

AnalyzerInit == Init \/ UnitInit

AnalyzerNext == Next \/ UnitNext

AnalyzerSpec == AnalyzerInit /\ [][AnalyzerNext]_vars

(* C16: the availability rule is violated exactly when availability_percent *)
(* is below 99.0, exactly 99.0 being no violation, and the thresholds 10,   *)
(* 60 and 99.0 are the same in every state: no operation of the analyzer    *)
(* (load, parse, identify, availability, compliance, statistics, analyze)   *)
(* changes them.                                                            *)
C16_AvailabilityRuleFixedThresholds ==
    /\ self.MAX_OUTAGES_PER_MONTH = 10
    /\ self.MAX_OUTAGE_DURATION_MINUTES = 60
    /\ self.MIN_AVAILABILITY_PERCENT = RatInt(99)
    /\ (ComplianceReturned \/ UnitComplianceReturned) =>
          LET found == IssuesOfRule(compliance.issues,
                                    "Availability below minimum")
              below == availability_percent.num < 99 * availability_percent.den
          IN  /\ below =>
                  /\ found = << <<"Availability below minimum",
                                  Format2f(availability_percent), 99>> >>
                  /\ ~compliance.compliant
              /\ ~below => found = <<>>

C16_Witness ==
    /\ UnitComplianceReturned
    /\ availability_percent = RatInt(99)
    /\ outages # <<>>
    /\ compliance.issues = <<>>
    /\ compliance.status = "COMPLIANT"
    /\ self = __init__

(* check_epa_compliance is called again after an outage of more than 60    *)
(* minutes was added to the list of the previous call and the availability *)
(* was recomputed: `compliance` is the result for the list without the new *)
(* outage, compliance' the result for the list with it                     *)
ReevaluatedWithLongOutage ==
    /\ pc = "check_epa_compliance"
    /\ pc' = "calculate_statistics"
    /\ compliance # NotComputed
    /\ outages # <<>>
    /\ Over60(<<outages[Len(outages)]>>) # <<>>

(* every rule with an issue in `before` has an issue in `after` *)
KeepsRules(before, after) ==
    \A k \in 1 .. Len(before) :
        \E j \in 1 .. Len(after) : after[j][1] = before[k][1]

(* C17 as stated: adding an outage longer than 60 minutes and re-evaluating *)
(* makes the issue list at least one issue longer and keeps an issue for    *)
(* every rule that had one.                                                 *)
C17_AppendsAnIssue ==
    [][ReevaluatedWithLongOutage =>
          /\ Len(compliance'.issues) >= Len(compliance.issues) + 1
          /\ KeepsRules(compliance.issues, compliance'.issues)]_vars

(* C17, amended: adding an outage longer than 60 minutes and re-evaluating  *)
(* (availability recomputed) gives a non-compliant result whose issue list  *)
(* holds the duration issue and an issue for every rule that had one for L, *)
(* so it is never shorter; it is longer when L had no outage above 60       *)
(* minutes, and may keep its length when L already had one.                 *)
C17_KeepsRulesAndIsNonCompliant ==
    [][ReevaluatedWithLongOutage =>
          /\ IssuesOfRule(compliance'.issues,
                          "Found outage(s) exceeding minutes") # <<>>
          /\ ~compliance'.compliant
          /\ KeepsRules(compliance.issues, compliance'.issues)
          /\ Len(compliance'.issues) >= Len(compliance.issues)
          /\ IssuesOfRule(compliance.issues,
                          "Found outage(s) exceeding minutes") = <<>>
                => Len(compliance'.issues) >= Len(compliance.issues) + 1]_vars

(* the re-evaluation after a second long outage: still one issue *)
C17_Witness ==
    /\ pc = "calculate_statistics"
    /\ Len(outages) = 2
    /\ Len(Over60(outages)) = 2
    /\ compliance.issues = << <<"Found outage(s) exceeding minutes", 2, 60>> >>

----------------------------------------------------------------------------
(* analyze_data has returned and its DataFrame is a parsed event stream    *)
(* (both columns, timestamps converted) without an indicator message       *)
ReturnedForStreamWithoutIndicators ==
    /\ pc = "done"
    /\ {"Time", "Message"} \subseteq df.columns
    /\ df.time_dtype = "datetime64"
    /\ \A k \in 1 .. Len(df.rows) : ~IsIndicatorMsg(df.rows[k].Message)

(* C18: for an event stream without 'Pilot Inactive' / 'Pilot Active'      *)
(* messages (a stream of zero events included) and a window of positive    *)
(* length the analysis is a Success with an empty outage list,             *)
(* total_outages = 0, all five duration statistics 0, availability_percent *)
(* = 100 and compliant = true.                                             *)
C18_EmptyInputConvention ==
    (ReturnedForStreamWithoutIndicators /\ WindowMinutes > 0) =>
        /\ result.success
        /\ result.outages = <<>>
        /\ result.summary.total_outages = 0
        /\ result.summary.statistics.mean_duration_minutes = RatInt(0)
        /\ result.summary.statistics.median_duration_minutes = RatInt(0)
        /\ result.summary.statistics.max_duration_minutes = RatInt(0)
        /\ result.summary.statistics.min_duration_minutes = RatInt(0)
        /\ result.summary.statistics.std_duration_minutes = RatInt(0)
        /\ result.summary.availability_percent = RatInt(100)
        /\ result.summary.compliance_details.compliant = TRUE

C18_Witness ==
    /\ ReturnedForStreamWithoutIndicators
    /\ WindowMinutes > 0
    /\ Len(df.rows) = 2
    /\ result.success
    /\ result.summary.availability_percent = RatInt(100)
    /\ result.summary.statistics.std_duration_minutes = RatInt(0)

(* the loaded table lacks a required column and the column check is next *)
ColumnMissingAtCheck ==
    /\ pc = "check_columns"
    /\ ("Time" \notin df.columns \/ "Message" \notin df.columns)

(* C19: when the input table lacks the 'Time' or the 'Message' column,     *)
(* analyze_data returns a Failure (success = false, not the handler of a   *)
(* raised exception) whose message lists the columns found; no sort,       *)
(* filter, outage extraction, availability, compliance or statistics step  *)
(* has run before it or runs after it.                                     *)
C19_MissingColumnFails ==
    [][/\ ColumnMissingAtCheck =>
            /\ pc' = "done"
            /\ result' = [success |-> FALSE,
                          error |-> <<"Required columns not found",
                                      df.columns>>]
            /\ df' = df
            /\ df.time_dtype = "object"
            /\ <<i, in_outage, outage_start, outages>> = <<0, FALSE, None, <<>>>>
            /\ <<availability_percent, compliance, stats>>
                  = <<NotComputed, NotComputed, NotComputed>>
            /\ UNCHANGED <<scanVars, laterVars>>
       /\ pc = "done" => UNCHANGED vars]_vars

C19_Witness ==
    /\ pc = "done"
    /\ df.columns = {"Time"}
    /\ df.rows # <<>>
    /\ result = [success |-> FALSE,
                 error |-> <<"Required columns not found", {"Time"}>>]
    /\ outages = <<>>
    /\ stats = NotComputed

----------------------------------------------------------------------------
(* the place of each position of analyze_data in the order of its steps:   *)
(* load, normalization (column check, parse, sort, filter), outage         *)
(* extraction, availability, compliance, statistics, summary and return    *)
StepIndex(p) ==
    CASE p = "load" -> 0
      [] p = "check_columns" -> 1
      [] p = "parse_timestamps" -> 2
      [] p = "sort" -> 3
      [] p = "filter" -> 4
      [] p = "identify_outages" -> 5
      [] p = "scan" -> 6
      [] p = "availability" -> 7
      [] p = "compliance" -> 8
      [] p = "statistics" -> 9
      [] p = "summary" -> 10
      [] p = "done" -> 11

(* a condition that is fatal for the step about to run: an unreadable     *)
(* file is seen by the load itself; a missing column and an unparseable   *)
(* 'Time' column end the normalization; a zero-length window ends the     *)
(* availability step                                                      *)
FatalConditionAtStep ==
    \/ ColumnMissingAtCheck
    \/ pc = "filter" /\ df.time_dtype # "datetime64"
    \/ pc = "availability" /\ WindowMinutes = 0

(* C20: every result of analyze_data is a Success carrying data, outages   *)
(* and summary (and no error) or a Failure carrying an error and neither   *)
(* outages nor summary. The steps run in the order normalization, outage   *)
(* extraction, availability, compliance, statistics; a fatal condition     *)
(* ends the call at once with a Failure, so that no later step runs and no *)
(* summary is returned with it.                                            *)
C20_FatalConditionAborts ==
    [][/\ pc' # pc =>
            \/ StepIndex(pc') = StepIndex(pc) + 1
            \/ pc' = "done" /\ ~result'.success
       /\ stats' # NotComputed => compliance' # NotComputed
       /\ compliance' # NotComputed => availability_percent' # NotComputed
       /\ availability_percent' # NotComputed =>
            /\ StepIndex(pc') > StepIndex("scan")
            /\ df'.time_dtype = "datetime64"
       /\ pc' = "done" =>
            IF result'.success
            THEN /\ {"data", "outages", "summary"} \subseteq DOMAIN result'
                 /\ "error" \notin DOMAIN result'
                 /\ stats' # NotComputed
                 /\ result'.outages = outages'
            ELSE /\ "error" \in DOMAIN result'
                 /\ DOMAIN result' \cap {"data", "outages", "summary"} = {}
                 /\ <<compliance', stats'>> = <<NotComputed, NotComputed>>
       /\ FatalConditionAtStep => pc' = "done" /\ ~result'.success
       /\ pc = "done" => UNCHANGED vars]_vars

----------------------------------------------------------------------------
(* the 'Time' column of the loaded table cannot be parsed and               *)
(* parse_timestamps is about to run                                         *)
UnparseableAtParse ==
    /\ pc = "parse_timestamps"
    /\ ~Parseable(df.rows)

(* C21: when the 'Time' column is present but cannot be parsed, the parse   *)
(* step itself ends the analysis with a Failure (TimestampParseError): the  *)
(* unparsed column is never sorted, windowed or scanned, and no row is      *)
(* dropped.                                                                 *)
C21_ParseFailureIsFatal ==
    [][/\ UnparseableAtParse =>
            /\ pc' = "done"
            /\ result'.success = FALSE
            /\ df' = df
       /\ pc' \in {"sort", "filter", "identify_outages", "scan"} =>
            df'.time_dtype = "datetime64"]_vars

(* C22: the window filter of analyze_data is inclusive on both ends: a row  *)
(* is kept exactly when first_day <= Time <= last_day, the kept rows stay   *)
(* in their order, and the rows the outage extraction visits are the kept   *)
(* rows, those stamped exactly first_day or last_day included.              *)
C22_InclusiveWindow ==
    [][/\ (pc = "filter" /\ df.time_dtype = "datetime64") =>
            /\ pc' = "identify_outages"
            /\ df'.rows = SelectSeq(df.rows, LAMBDA r :
                              /\ ~(r.Time < month_data.first_day)
                              /\ ~(r.Time > month_data.last_day))
       /\ pc' \in {"identify_outages", "scan"} =>
            /\ \A k \in 1 .. Len(df'.rows) :
                  /\ month_data.first_day <= df'.rows[k].Time
                  /\ df'.rows[k].Time <= month_data.last_day
            /\ pc = pc' => df'.rows = df.rows]_vars

(* a row at first_day and a row at last_day were kept and visited, a row    *)
(* after last_day was dropped                                               *)
C22_Witness ==
    /\ pc = "availability"
    /\ month_data.first_day < month_data.last_day
    /\ month_data.last_day < MaxTime
    /\ Len(df.rows) = 2
    /\ df.rows[1].Time = month_data.first_day
    /\ df.rows[2].Time = month_data.last_day
    /\ i = 2
    /\ Len(outages) = 1
    /\ outages[1].start = month_data.first_day
    /\ outages[1].end = month_data.last_day

(* df.sort_values('Time') done as a stable sort: ascending by key, rows     *)
(* with equal keys in their original order                                  *)
RECURSIVE StableSortByTime(_, _)
StableSortByTime(d, rows) ==
    IF rows = <<>> THEN <<>>
    ELSE LET n == Len(rows)
             front == StableSortByTime(d, SubSeq(rows, 1, n - 1))
             key == SortKey(d, rows[n].Time)
         IN  SelectSeq(front, LAMBDA r : SortKey(d, r.Time) <= key)
                \o <<rows[n]>>
                \o SelectSeq(front, LAMBDA r : SortKey(d, r.Time) > key)

(* C23: analyze_data sorts the rows ascending by timestamp before the       *)
(* window filter and the sort is stable: rows with equal timestamps keep    *)
(* their original row order on the way to the outage state machine.         *)
C23_StableSort ==
    [][(pc = "sort" /\ df.time_dtype = "datetime64") =>
          /\ pc' = "filter"
          /\ df'.rows = StableSortByTime(df, df.rows)]_vars

(* the positions of the indicator rows of a stream *)
IndicatorPositions(rows) ==
    {k \in 1 .. Len(rows) : IsIndicatorMsg(rows[k].Message)}

(* the last indicator event of the stream is a 'Pilot Inactive' *)
LastIndicatorIsInactive(rows) ==
    \E k \in IndicatorPositions(rows) :
        /\ \A j \in IndicatorPositions(rows) : j <= k
        /\ IsInactiveMsg(rows[k].Message)

(* C28: in the outage list returned by identify_outages at most one outage *)
(* is ongoing and it is the last element; there is one exactly when the    *)
(* machine is inactive after the last event, that is when the last         *)
(* indicator event of the stream is a 'Pilot Inactive'.                    *)
C28_OngoingOnlyLast ==
    OutagesReturned =>
        /\ \A k \in 1 .. Len(outages) :
              GetOngoing(outages[k]) => k = Len(outages)
        /\ (outages # <<>> /\ GetOngoing(outages[Len(outages)]))
              <=> LastIndicatorIsInactive(df.rows)
        /\ LastIndicatorIsInactive(df.rows) <=> in_outage

C28_Witness ==
    /\ OutagesReturned
    /\ Len(outages) = 2
    /\ ~GetOngoing(outages[1])
    /\ GetOngoing(outages[2])
    /\ Len(df.rows) = 3
    /\ IsInactiveMsg(df.rows[3].Message)

(* C29: in every successful analyze_data run with first_day < last_day     *)
(* every outage satisfies first_day <= start <= end <= last_day, the        *)
(* outage durations sum to at most the window length, and the reported      *)
(* availability_percent lies between 0 and 100 inclusive.                   *)
C29_OutagesInsideWindow ==
    (pc = "done" /\ result.success
        /\ month_data.first_day < month_data.last_day) =>
        /\ \A k \in 1 .. Len(result.outages) :
              /\ month_data.first_day <= result.outages[k].start
              /\ result.outages[k].start <= result.outages[k].end
              /\ result.outages[k].end <= month_data.last_day
        /\ RatLeq(result.summary.total_outage_minutes, RatInt(WindowMinutes))
        /\ RatLeq(RatInt(0), result.summary.availability_percent)
        /\ RatLeq(result.summary.availability_percent, RatInt(100))

(* an outage that fills the whole window: availability 0 *)
C29_Witness ==
    /\ pc = "done"
    /\ result.success
    /\ month_data.first_day < month_data.last_day
    /\ Len(result.outages) = 1
    /\ result.outages[1].start = month_data.first_day
    /\ result.outages[1].end = month_data.last_day
    /\ result.summary.availability_percent = RatInt(0)
    /\ Len(result.data.rows) = 3

----------------------------------------------------------------------------
(* report_generator.py: the sections of the report that show compliance    *)

(* the mark of a metrics row: '✓' or '✗' *)
Mark(ok) == IF ok THEN "pass" ELSE "fail"

(* _create_executive_summary: the status line, the marks of the key        *)
(* metrics table and the issues listed under it                            *)
create_executive_summary(summary) ==
    LET details == summary.compliance_details
    IN  [section |-> "Executive Summary",
         status |-> details.status,
         total_outages |-> Mark(summary.total_outages <= 10),
         system_availability |->
             Mark(RatLeq(RatInt(99), summary.availability_percent)),
         longest_outage |->
             Mark(RatLeq(summary.statistics.max_duration_minutes, RatInt(4))),
         issues |-> IF ~details.compliant /\ details.issues # <<>>
                    THEN details.issues ELSE <<>>]

(* variant: the outage table uses the analyzer's 60 minute limit *)
create_outage_detailsSixty(os) ==
    [section |-> "Outage Event Details",
     rows |-> [k \in 1 .. Len(os) |->
                 [event |-> k, start |-> os[k].start, end |-> os[k].end,
                  duration |-> Format2f(os[k].duration_minutes),
                  status |-> IF RatLess(RatInt(60), os[k].duration_minutes)
                             THEN "Exceeds limit" ELSE "Within limit"]]]

(* _create_outage_details: one table row per outage; for an empty list the *)
(* section holds a sentence and no table                                   *)
create_outage_details(os) ==
    [section |-> "Outage Event Details",
     rows |-> [k \in 1 .. Len(os) |->
                 [event |-> k, start |-> os[k].start, end |-> os[k].end,
                  duration |-> Format2f(os[k].duration_minutes),
                  status |-> IF RatLess(RatInt(240), os[k].duration_minutes)
                             THEN "Exceeds limit" ELSE "Within limit"]]]

(* The two section builders called on the summary and the outage list of   *)
(* an analysis whose outages last 4 to 241 minutes                         *)

MaxReportOutages == 2

ReportDurations == {4, 5, 60, 61, 240, 241}
ReportWindows == {[first_day |-> 0, last_day |-> w] : w \in {500, 43200}}

RECURSIVE SumInts(_)
SumInts(ds) == IF ds = <<>> THEN 0 ELSE ds[1] + SumInts(Tail(ds))

(* outages of the given durations, one after the other from minute 0; the  *)
(* last one still open at the end of the data when `ongoing`               *)
OutagesOf(ds, ongoing) ==
    [k \in 1 .. Len(ds) |->
        LET start == SumInts(SubSeq(ds, 1, k - 1))
        IN  IF ongoing /\ k = Len(ds)
            THEN OngoingOutage(start, start + ds[k])
            ELSE CompletedOutage(start, start + ds[k])]

ReportOutageLists ==
    {OutagesOf(ds, ongoing) :
        ds \in SeqsUpTo(ReportDurations, MaxReportOutages), ongoing \in BOOLEAN}

ReportInit ==
    /\ self = __init__
    /\ file = UnknownFile
    /\ OneCallOnly
    /\ month_data \in ReportWindows
    /\ pc = "calculate_availability"
    /\ df = NoDf
    /\ i = 0
    /\ in_outage = FALSE
    /\ outage_start = None
    /\ outages \in ReportOutageLists
    /\ availability_percent = NotComputed
    /\ compliance = NotComputed
    /\ stats = NotComputed
    /\ result = NotReturned

ReportCreateExecutiveSummary ==
    /\ pc = "returned"
    /\ story' = Append(story, create_executive_summary(Summary))
    /\ pc' = "outage_details"
    /\ UNCHANGED <<self, file, suspended, argsort, automation, month_data, df,
                   scanVars, laterVars, result>>

ReportCreateOutageDetails ==
    /\ pc = "outage_details"
    /\ story' = Append(story, create_outage_details(outages))
    /\ pc' = "story_built"
    /\ UNCHANGED <<self, file, suspended, argsort, automation, month_data, df,
                   scanVars, laterVars, result>>

ReportNext ==
    \/ UnitCalculateAvailability
    \/ UnitCheckCompliance
    \/ UnitCalculateStatistics
    \/ ReportCreateExecutiveSummary
    \/ ReportCreateOutageDetails

ReportSpec == ReportInit /\ [][ReportNext]_vars

(* C27: the detailed outage table marks an outage 'Exceeds limit' only when *)
(* it lasts more than 240 minutes, while compliance counts an outage as a   *)
(* violation above 60 minutes: an outage with 60 < duration <= 240 makes    *)
(* the period NON-COMPLIANT and is marked 'Within limit' in the table.      *)
C27_TableLimitDiffers ==
    pc = "story_built" =>
        /\ Len(story[2].rows) = Len(outages)
        /\ \A k \in 1 .. Len(outages) :
              LET minutes == outages[k].end - outages[k].start
              IN  /\ story[2].rows[k].status = "Exceeds limit" <=> minutes > 240
                  /\ story[2].rows[k].status = "Within limit" <=> minutes <= 240
                  /\ (60 < minutes /\ minutes <= 240) =>
                        /\ compliance.status = "NON-COMPLIANT"
                        /\ story[1].status = "NON-COMPLIANT"
                        /\ IssuesOfRule(compliance.issues,
                              "Found outage(s) exceeding minutes") # <<>>

C27_Witness ==
    /\ pc = "story_built"
    /\ Len(outages) = 2
    /\ outages[1].duration_minutes = RatInt(240)
    /\ outages[2].duration_minutes = RatInt(241)
    /\ story[2].rows[1].status = "Within limit"
    /\ story[2].rows[2].status = "Exceeds limit"
    /\ IssuesOfRule(compliance.issues, "Found outage(s) exceeding minutes")
          = << <<"Found outage(s) exceeding minutes", 2, 60>> >>

(* C30: whenever the analysis is COMPLIANT, the Total Outages, System       *)
(* Availability and Longest Outage rows of the executive-summary metrics    *)
(* table all show the pass mark.                                            *)
C30_MarksAgreeWithCompliance ==
    (pc = "story_built" /\ compliance.status = "COMPLIANT") =>
        /\ story[1].total_outages = "pass"
        /\ story[1].system_availability = "pass"
        /\ story[1].longest_outage = "pass"

----------------------------------------------------------------------------
(* pilot_automation.py: run_automation, with analyze_data running inside   *)

(* the tables the downloaded file may hold: those of at most one row *)
DownloadedTables == {t \in Tables : Len(t.rows) <= 1}

(* config['send_email'] and config['email_password'] *)
Configs == [send_email : BOOLEAN, email_password : {"", "secret"}]

AutomationInit ==
    /\ self = __init__
    /\ file = UnknownFile
    /\ suspended = NoFrame
    /\ argsort = <<>>
    /\ \E config \in Configs :
          automation = [stage |-> "download", config |-> config,
                        pdf_generated |-> FALSE, email_attempted |-> FALSE,
                        email_sent |-> FALSE, result |-> NotReturned]
    /\ story = <<>>
    /\ month_data \in Windows
    /\ pc = "not_called"
    /\ df = NoDf
    /\ i = 0
    /\ in_outage = FALSE
    /\ outage_start = None
    /\ outages = <<>>
    /\ availability_percent = NotComputed
    /\ compliance = NotComputed
    /\ stats = NotComputed
    /\ result = NotReturned

analyzeVars == <<month_data, df, scanVars, laterVars, result>>

(* Step 1 succeeded: the file exists; Step 2 calls analyze_data on it *)
AutomationDownload ==
    /\ automation.stage = "download"
    /\ \E table \in DownloadedTables : file' = [known |-> TRUE, table |-> table]
    /\ automation' = [automation EXCEPT !.stage = "analyze"]
    /\ pc' = "load"
    /\ UNCHANGED <<self, suspended, argsort, story, analyzeVars>>

(* Step 1 failed: no csv_file, or the file does not exist *)
AutomationDownloadFails ==
    /\ automation.stage = "download"
    /\ automation' = [automation EXCEPT
          !.stage = "returned",
          !.result = [success |-> FALSE,
                      error |-> "Failed to download data from Uplink system",
                      details |-> "CSV file not found after download attempt"]]
    /\ UNCHANGED <<self, file, suspended, argsort, story, pc, analyzeVars>>

(* variant: the report is mailed although the analysis failed *)
AutomationAnalysisFailedStillMails ==
    /\ automation.stage = "analyze"
    /\ pc = "done"
    /\ ~result.success
    /\ automation' = [automation EXCEPT
          !.stage = "returned",
          !.email_attempted = TRUE,
          !.result = [success |-> FALSE, error |-> "Failed to analyze data",
                      details |-> result.error]]
    /\ UNCHANGED <<self, file, suspended, argsort, story, pc, analyzeVars>>

(* analyze_data returned a Failure: run_automation returns at once *)
AutomationAnalysisFailed ==
    /\ automation.stage = "analyze"
    /\ pc = "done"
    /\ ~result.success
    /\ automation' = [automation EXCEPT
          !.stage = "returned",
          !.result = [success |-> FALSE, error |-> "Failed to analyze data",
                      details |-> result.error]]
    /\ UNCHANGED <<self, file, suspended, argsort, story, pc, analyzeVars>>

(* Step 3: generate_report builds the story from the analysis results and  *)
(* writes the PDF                                                          *)
AutomationGenerateReport ==
    /\ automation.stage = "analyze"
    /\ pc = "done"
    /\ result.success
    /\ story' = <<create_executive_summary(result.summary),
                  create_outage_details(result.outages)>>
    /\ automation' = [automation EXCEPT !.stage = "email",
                                        !.pdf_generated = TRUE]
    /\ UNCHANGED <<self, file, suspended, argsort, pc, analyzeVars>>

(* Step 3 failed: doc.build raised, generate_report returned a failure *)
AutomationGenerateReportFails ==
    /\ automation.stage = "analyze"
    /\ pc = "done"
    /\ result.success
    /\ automation' = [automation EXCEPT
          !.stage = "returned",
          !.result = [success |-> FALSE,
                      error |-> "Failed to generate PDF report",
                      details |-> "build error"]]
    /\ UNCHANGED <<self, file, suspended, argsort, story, pc, analyzeVars>>

(* Step 4, when requested and a password is configured, then the final     *)
(* result; a failed email does not fail the run                            *)
AutomationSendEmail ==
    /\ automation.stage = "email"
    /\ \E delivered \in BOOLEAN :
          LET wanted == automation.config.send_email
                            /\ automation.config.email_password # ""
              email_sent == wanted /\ delivered
          IN  automation' = [automation EXCEPT
                  !.stage = "returned",
                  !.email_attempted = wanted,
                  !.email_sent = email_sent,
                  !.result = [success |-> TRUE, email_sent |-> email_sent,
                              summary |->
                                [total_outages |-> result.summary.total_outages,
                                 availability |->
                                   Format2f(result.summary.availability_percent),
                                 compliance |-> result.summary.epa_compliance],
                              detailed_results |-> result]]
    /\ UNCHANGED <<self, file, suspended, argsort, story, pc, analyzeVars>>

AutomationNext ==
    \/ AutomationDownload
    \/ AutomationDownloadFails
    \/ Next
    \/ AutomationAnalysisFailed
    \/ AutomationGenerateReport
    \/ AutomationGenerateReportFails
    \/ AutomationSendEmail

AutomationSpec == AutomationInit /\ [][AutomationNext]_vars

(* C26: in run_automation, when the analysis returns a Failure, no report  *)
(* is generated and no email is sent, and the returned result has          *)
(* success = false and carries the analysis Failure message verbatim; each *)
(* stage (download, analyze, render, email) starts only after every        *)
(* earlier stage succeeded, and nothing runs after the return.             *)
C26_StagesInOrder ==
    [][/\ (automation.stage = "analyze" /\ pc = "done" /\ ~result.success) =>
            /\ automation'.stage = "returned"
            /\ automation'.result.success = FALSE
            /\ automation'.result.details = result.error
            /\ ~automation'.pdf_generated
            /\ ~automation'.email_attempted
            /\ story' = <<>>
       /\ (pc = "not_called" /\ pc' # "not_called") => file'.known
       /\ (automation'.pdf_generated /\ ~automation.pdf_generated) =>
            /\ file.known
            /\ pc = "done" /\ result.success
       /\ (automation'.email_attempted /\ ~automation.email_attempted) =>
            /\ file.known
            /\ pc = "done" /\ result.success
            /\ automation.pdf_generated
       /\ (automation'.stage = "returned" /\ automation'.result.success) =>
            automation.pdf_generated
       /\ automation.stage = "returned" => UNCHANGED vars]_vars

C26_Witness ==
    /\ automation.stage = "returned"
    /\ automation.config.send_email
    /\ automation.config.email_password # ""
    /\ ~automation.result.success
    /\ automation.result.error = "Failed to analyze data"
    /\ "details" \in DOMAIN result
    /\ automation.result.details = "TypeError"
    /\ story = <<>>
    /\ ~automation.email_attempted

----------------------------------------------------------------------------
(* Two analyze_data calls on one analyzer, their steps interleaved: the    *)
(* running call's arguments, locals and return value are the variables,    *)
(* those of the call that is not running are kept in `suspended`           *)

MaxCallRows == 2

(* the data files of the first call: up to MaxCallRows indicator rows *)
CallTables ==
    {[columns |-> {"Time", "Message"}, rows |-> rs] :
        rs \in SeqsUpTo([Time : {RawTime(1), RawTime(2)},
                         Message : {PilotInactiveMsg, PilotActiveMsg}],
                        MaxCallRows)}

(* the data files of the second call: an inactive and an active indicator *)
(* of the same minute, in either order                                     *)
OtherCallTables ==
    {t \in CallTables : /\ Len(t.rows) = 2
                        /\ t.rows[1].Time = RawTime(1)
                        /\ t.rows[2].Time = RawTime(1)
                        /\ t.rows[1].Message # t.rows[2].Message}

CallWindow == [first_day |-> 0, last_day |-> 1]

(* the frame of the running call *)
Frame ==
    [file |-> file, month_data |-> month_data, pc |-> pc, df |-> df, i |-> i,
     in_outage |-> in_outage, outage_start |-> outage_start,
     outages |-> outages, availability_percent |-> availability_percent,
     compliance |-> compliance, stats |-> stats, result |-> result]

(* the frame of a call that has not run its first statement *)
NewFrame(table) ==
    [file |-> [known |-> TRUE, table |-> table], month_data |-> CallWindow,
     pc |-> "load", df |-> NoDf, i |-> 0, in_outage |-> FALSE,
     outage_start |-> None, outages |-> <<>>,
     availability_percent |-> NotComputed, compliance |-> NotComputed,
     stats |-> NotComputed, result |-> NotReturned]

TwoCallsInit ==
    /\ self = __init__
    /\ argsort = <<>>
    /\ automation = NotRunning
    /\ story = <<>>
    /\ \E table \in CallTables :
          /\ file = NewFrame(table).file
          /\ month_data = NewFrame(table).month_data
          /\ pc = NewFrame(table).pc
          /\ df = NewFrame(table).df
          /\ i = NewFrame(table).i
          /\ in_outage = NewFrame(table).in_outage
          /\ outage_start = NewFrame(table).outage_start
          /\ outages = NewFrame(table).outages
          /\ availability_percent = NewFrame(table).availability_percent
          /\ compliance = NewFrame(table).compliance
          /\ stats = NewFrame(table).stats
          /\ result = NewFrame(table).result
    /\ \E table \in OtherCallTables : suspended = NewFrame(table)

(* variant: in_outage, outage_start and the outage list are kept on the    *)
(* analyzer and so are common to both calls                                *)
SwitchSharedScanState ==
    /\ suspended' = Frame
    /\ file' = suspended.file
    /\ month_data' = suspended.month_data
    /\ pc' = suspended.pc
    /\ df' = suspended.df
    /\ i' = suspended.i
    /\ availability_percent' = suspended.availability_percent
    /\ compliance' = suspended.compliance
    /\ stats' = suspended.stats
    /\ result' = suspended.result
    /\ UNCHANGED <<self, argsort, automation, story, in_outage, outage_start,
                   outages>>

(* the running call is suspended and the other call goes on: every local   *)
(* of identify_outages and analyze_data belongs to its own call            *)
Switch ==
    /\ suspended' = Frame
    /\ file' = suspended.file
    /\ month_data' = suspended.month_data
    /\ pc' = suspended.pc
    /\ df' = suspended.df
    /\ i' = suspended.i
    /\ in_outage' = suspended.in_outage
    /\ outage_start' = suspended.outage_start
    /\ outages' = suspended.outages
    /\ availability_percent' = suspended.availability_percent
    /\ compliance' = suspended.compliance
    /\ stats' = suspended.stats
    /\ result' = suspended.result
    /\ UNCHANGED <<self, argsort, automation, story>>

(* the keys sort_values hands to the sort *)
SortKeys(d) == [k \in 1 .. Len(d.rows) |-> SortKey(d, d.rows[k].Time)]

(* variant: a sort of the same keys may give another order each time *)
SortValuesAnyOrder ==
    /\ pc = "sort"
    /\ \E f \in SortOrders(df, 1 .. Len(df.rows)) :
          /\ df' = [df EXCEPT !.rows = [k \in 1 .. Len(df.rows) |-> df.rows[f[k]]]]
          /\ argsort' = (SortKeys(df) :> f) @@ argsort
    /\ pc' = "filter"
    /\ UNCHANGED <<self, file, suspended, automation, story, month_data,
                   scanVars, laterVars, result>>

(* df.sort_values('Time') where the build has sorted before: the order of  *)
(* tied rows is not specified, but the sort is a function of its keys, so  *)
(* the same keys come out in the same order as the last time               *)
SortValuesSameBuild ==
    /\ pc = "sort"
    /\ \E f \in SortOrders(df, 1 .. Len(df.rows)) :
          /\ SortKeys(df) \in DOMAIN argsort => f = argsort[SortKeys(df)]
          /\ df' = [df EXCEPT !.rows = [k \in 1 .. Len(df.rows) |-> df.rows[f[k]]]]
          /\ argsort' = (SortKeys(df) :> f) @@ argsort
    /\ pc' = "filter"
    /\ UNCHANGED <<self, file, suspended, automation, story, month_data,
                   scanVars, laterVars, result>>

TwoCallsNext ==
    \/ Switch
    \/ LoadData
    \/ CheckColumns
    \/ ParseTimestamps
    \/ SortValuesSameBuild
    \/ FilterToMonth
    \/ IdentifyOutagesBegin
    \/ ScanInactiveRow
    \/ ScanActiveRow
    \/ FinalizeOutages
    \/ CalculateAvailability
    \/ CheckCompliance
    \/ CalculateStatistics
    \/ ReturnSuccess

TwoCallsSpec == TwoCallsInit /\ [][TwoCallsNext]_vars

(* what analyze_data returns for a readable table with both columns and    *)
(* parseable timestamps when it runs alone and the sort gives the order f  *)
AnalysisOf(table, md, f) ==
    LET parsed == parse_timestamps([columns |-> table.columns,
                                    rows |-> table.rows,
                                    time_dtype |-> "object"])
        sorted == [k \in 1 .. Len(parsed.rows) |-> parsed.rows[f[k]]]
        data == [parsed EXCEPT !.rows =
                    SelectSeq(sorted, LAMBDA r : InWindow(md, r.Time))]
        os == identify_outages(data.rows)
        availability == calculate_availability(data.rows, os, md)
        details == check_epa_compliance(os, availability)
    IN  [success |-> TRUE, data |-> data, outages |-> os,
         summary |-> [total_outages |-> Len(os),
                      total_outage_minutes |-> SumDurationMinutes(os),
                      availability_percent |-> availability,
                      epa_compliance |-> details.status,
                      compliance_details |-> details,
                      statistics |-> calculate_statistics(os)],
         month_data |-> md]

(* the results one call alone can return for a table and a window *)
ResultsAlone(table, md) ==
    {AnalysisOf(table, md, f) :
        f \in SortOrders(parse_timestamps([columns |-> table.columns,
                                           rows |-> table.rows,
                                           time_dtype |-> "object"]),
                         1 .. Len(table.rows))}

(* both calls have returned *)
BothReturned == pc = "done" /\ suspended.pc = "done"

C25_CallsDoNotInterfere ==
    [][ /\ pc' = "done" =>
            result' \in ResultsAlone(file'.table, month_data')
        /\ suspended'.pc = "done" =>
            suspended'.result \in ResultsAlone(suspended'.file.table,
                                               suspended'.month_data)
        /\ suspended' # suspended =>
            (suspended' = Frame /\ Frame' = suspended) ]_vars

(* both calls returned, on different tables, each with one outage of its   *)
(* own that is not the outage of the other                                 *)
C25_Witness ==
    /\ BothReturned
    /\ file.table # suspended.file.table
    /\ Len(result.outages) = 1
    /\ Len(suspended.result.outages) = 1
    /\ result.outages # suspended.result.outages

====
